---- MODULE Spec2Model ----
(***************************************************************************)
(* Model of src/api/plot.py: the plot service's request handlers           *)
(* (do_OPTIONS, do_GET, do_POST) and the pipeline they run                  *)
(* (parse_payload, validate_payload, evaluate_expression, render_plot).     *)
(*                                                                         *)
(* Representation.                                                         *)
(*  - A Python string is a tuple of one-character strings.                 *)
(*  - A Python value is a record [t, n, s]: t is its type tag, n its       *)
(*    number in hundredths (fixed point, 1.0 is 100), s its characters.    *)
(*    The float specials are the tags "nan", "inf", "ninf".                *)
(*  - An ndarray is a tuple of float values.                               *)
(*  - An exception is the name of its class.                               *)
(***************************************************************************)
EXTENDS Integers, Sequences, FiniteSets, TLC

\* ------------------------------------------------------------------ bounds
\* Largest in-range sample count a modelled request asks for explicitly.
MaxSamplesInput == 3

\* ------------------------------------------------------- program constants
max_message_len == 1000000
MIN_SAMPLES == 2
MAX_SAMPLES == 10000
DEFAULT_SAMPLES == 500
\* 0.1 and 10 in hundredths
MIN_LINE_WIDTH == 10
MAX_LINE_WIDTH == 1000

\* ------------------------------------------------------------ Python values
Val(t, n, s) == [t |-> t, n |-> n, s |-> s]
PyNone == Val("none", 0, <<>>)
PyInt(i) == Val("int", i * 100, <<>>)
\* a finite float given in hundredths
PyFloat(h) == Val("float", h, <<>>)
PyNaN == Val("nan", 0, <<>>)
PyInf == Val("inf", 0, <<>>)
PyNInf == Val("ninf", 0, <<>>)
PyStr(s) == Val("str", 0, s)
PyBool(b) == Val("bool", IF b THEN 100 ELSE 0, <<>>)
PyDict == Val("dict", 0, <<>>)
PyModule == Val("module", 0, <<>>)

IsFinite(v) == v.t = "float"

\* A result: either a value or a raised exception.
Ok(v) == [ok |-> TRUE, v |-> v, exc |-> ""]
Raise(e) == [ok |-> FALSE, v |-> PyNone, exc |-> e]

\* except ValueError: the class itself and its subclasses
IsValueError(e) == e \in {"ValueError", "JSONDecodeError", "UnicodeDecodeError"}

\* ------------------------------------------------------------------ strings
Digits == <<"0", "1", "2", "3", "4", "5", "6", "7", "8", "9">>
DigitSet == {Digits[i] : i \in 1..10}
DigitVal(c) == (CHOOSE i \in 1..10 : Digits[i] = c) - 1
Letters == {"a", "b", "c", "d", "e", "f", "g", "h", "i", "j", "k", "l", "m",
            "n", "o", "p", "q", "r", "s", "t", "u", "v", "w", "x", "y", "z"}
\* \w of the re module
WordChars == Letters \cup DigitSet \cup {"_"}
Whitespace == {" "}

RECURSIVE LStrip(_)
LStrip(s) == IF s # <<>> /\ Head(s) \in Whitespace THEN LStrip(Tail(s)) ELSE s
RECURSIVE RStrip(_)
RStrip(s) ==
    IF s # <<>> /\ s[Len(s)] \in Whitespace THEN RStrip(SubSeq(s, 1, Len(s) - 1)) ELSE s
\* str.strip()
Strip(s) == RStrip(LStrip(s))

AllDigits(s) == s # <<>> /\ \A i \in 1..Len(s) : s[i] \in DigitSet
RECURSIVE DigitsValue(_)
DigitsValue(s) ==
    IF s = <<>> THEN 0 ELSE 10 * DigitsValue(SubSeq(s, 1, Len(s) - 1)) + DigitVal(s[Len(s)])

RECURSIVE NatToStr(_)
NatToStr(k) == IF k < 10 THEN <<Digits[k + 1]>> ELSE NatToStr(k \div 10) \o <<Digits[(k % 10) + 1]>>
IntToStr(i) == IF i < 0 THEN <<"-">> \o NatToStr(-i) ELSE NatToStr(i)

Unsigned(s) == IF s # <<>> /\ Head(s) \in {"-", "+"} THEN Tail(s) ELSE s
Sign(s) == IF s # <<>> /\ Head(s) = "-" THEN -1 ELSE 1
DotAt(s) == IF \E i \in 1..Len(s) : s[i] = "." THEN CHOOSE i \in 1..Len(s) : s[i] = "." ELSE 0
\* a fraction's digits as hundredths: "5" is 50, "25" is 25, "" is 0
FracHundredths(f) ==
    IF f = <<>> THEN 0
    ELSE IF Len(f) = 1 THEN 10 * DigitVal(f[1])
    ELSE 10 * DigitVal(f[1]) + DigitVal(f[2])

\* int(str): optional sign, digits only, surrounding whitespace allowed
IntOfStr(s) ==
    LET u == Unsigned(Strip(s))
    IN  IF AllDigits(u) THEN Ok(PyInt(Sign(Strip(s)) * DigitsValue(u)))
        ELSE Raise("ValueError")

\* float(str): "nan", "inf", "-inf", or a decimal literal
FloatOfStr(s) ==
    LET st == Strip(s)
        u == Unsigned(st)
        d == DotAt(u)
        whole == IF d = 0 THEN u ELSE SubSeq(u, 1, d - 1)
        frac == IF d = 0 THEN <<>> ELSE SubSeq(u, d + 1, Len(u))
    IN  IF u = <<"n", "a", "n">> THEN Ok(PyNaN)
        ELSE IF u = <<"i", "n", "f">> THEN Ok(IF Sign(st) < 0 THEN PyNInf ELSE PyInf)
        ELSE IF (whole = <<>> \/ AllDigits(whole)) /\ (frac = <<>> \/ AllDigits(frac))
                /\ (whole # <<>> \/ frac # <<>>)
             THEN Ok(PyFloat(Sign(st) * (100 * DigitsValue(whole) + FracHundredths(frac))))
        ELSE Raise("ValueError")

\* int(v) truncates toward zero
Trunc(h) == IF h >= 0 THEN (h \div 100) * 100 ELSE -(((-h) \div 100) * 100)

\* float(v)
PyFloatOf(v) ==
    CASE v.t \in {"int", "float", "bool"} -> Ok(PyFloat(v.n))
      [] v.t \in {"nan", "inf", "ninf"} -> Ok(v)
      [] v.t = "str" -> FloatOfStr(v.s)
      [] OTHER -> Raise("TypeError")

\* int(v)
PyIntOf(v) ==
    CASE v.t \in {"int", "float", "bool"} -> Ok(Val("int", Trunc(v.n), <<>>))
      [] v.t = "nan" -> Raise("ValueError")
      [] v.t \in {"inf", "ninf"} -> Raise("OverflowError")
      [] v.t = "str" -> IntOfStr(v.s)
      [] OTHER -> Raise("TypeError")

\* str(v)
PyStrOf(v) ==
    CASE v.t = "str" -> v.s
      [] v.t = "int" -> IntToStr(IF v.n >= 0 THEN v.n \div 100 ELSE -((-v.n) \div 100))
      [] v.t = "float" ->
            (IF v.n < 0 THEN <<"-">> ELSE <<>>)
            \o NatToStr((IF v.n < 0 THEN -v.n ELSE v.n) \div 100) \o <<".">>
            \o (LET f == (IF v.n < 0 THEN -v.n ELSE v.n) % 100
                IN  IF f % 10 = 0 THEN NatToStr(f \div 10)
                    ELSE <<Digits[(f \div 10) + 1], Digits[(f % 10) + 1]>>)
      [] v.t = "bool" -> IF v.n # 0 THEN <<"T", "r", "u", "e">> ELSE <<"F", "a", "l", "s", "e">>
      [] v.t = "nan" -> <<"n", "a", "n">>
      [] v.t = "inf" -> <<"i", "n", "f">>
      [] v.t = "ninf" -> <<"-", "i", "n", "f">>
      [] v.t = "none" -> <<"N", "o", "n", "e">>
      [] v.t = "list" -> <<"[", "]">>
      [] v.t = "dict" -> <<"{", "}">>
      [] OTHER -> <<"<", "o", "b", "j", ">">>

\* bool(v): the truth value the `or` operator and bool() use
Truthy(v) ==
    CASE v.t \in {"int", "float", "bool"} -> v.n # 0
      [] v.t = "str" -> v.s # <<>>
      [] v.t \in {"none", "list", "dict"} -> FALSE
      [] OTHER -> TRUE

\* ----------------------------------------------------------- float compare
\* x >= y on floats; every comparison with nan is false
FloatGE(a, b) ==
    CASE a.t = "nan" \/ b.t = "nan" -> FALSE
      [] a.t = "inf" -> TRUE
      [] b.t = "ninf" -> TRUE
      [] a.t = "ninf" -> FALSE
      [] b.t = "inf" -> FALSE
      [] OTHER -> a.n >= b.n
FloatLE(a, b) == FloatGE(b, a)

\* --------------------------------------------------------- float arithmetic
\* IEEE-754 arithmetic on finite fixed-point numbers and nan, inf, -inf.
IsInfTag(t) == t \in {"inf", "ninf"}
FNeg(a) ==
    CASE a.t = "inf" -> PyNInf
      [] a.t = "ninf" -> PyInf
      [] a.t = "nan" -> PyNaN
      [] OTHER -> PyFloat(-a.n)
\* -1, 0 or 1
FSign(a) ==
    CASE a.t = "inf" -> 1
      [] a.t = "ninf" -> -1
      [] OTHER -> IF a.n > 0 THEN 1 ELSE IF a.n < 0 THEN -1 ELSE 0
Signed(sgn) == IF sgn > 0 THEN PyInf ELSE PyNInf
FAdd(a, b) ==
    CASE a.t = "nan" \/ b.t = "nan" -> PyNaN
      [] IsInfTag(a.t) /\ IsInfTag(b.t) -> IF a.t = b.t THEN Val(a.t, 0, <<>>) ELSE PyNaN
      [] IsInfTag(a.t) -> Val(a.t, 0, <<>>)
      [] IsInfTag(b.t) -> Val(b.t, 0, <<>>)
      [] OTHER -> PyFloat(a.n + b.n)
FSub(a, b) == FAdd(a, FNeg(b))
\* the quotient rounded toward zero
QuoT(p, q) ==
    IF (p >= 0) = (q > 0)
    THEN (IF p >= 0 THEN p ELSE -p) \div (IF q > 0 THEN q ELSE -q)
    ELSE -((IF p >= 0 THEN p ELSE -p) \div (IF q > 0 THEN q ELSE -q))
FMul(a, b) ==
    CASE a.t = "nan" \/ b.t = "nan" -> PyNaN
      [] IsInfTag(a.t) \/ IsInfTag(b.t) ->
            IF FSign(a) * FSign(b) = 0 THEN PyNaN ELSE Signed(FSign(a) * FSign(b))
      [] OTHER -> PyFloat(QuoT(a.n * b.n, 100))
\* numpy true division: a zero divisor gives inf or nan, never an exception
FDiv(a, b) ==
    CASE a.t = "nan" \/ b.t = "nan" -> PyNaN
      [] IsInfTag(a.t) /\ IsInfTag(b.t) -> PyNaN
      [] IsInfTag(a.t) -> Signed(FSign(a) * (IF FSign(b) < 0 THEN -1 ELSE 1))
      [] IsInfTag(b.t) -> PyFloat(0)
      [] b.n = 0 -> IF a.n = 0 THEN PyNaN ELSE Signed(FSign(a))
      [] OTHER -> PyFloat(QuoT(a.n * 100, b.n))
\* a ** k for a natural exponent k given in hundredths
RECURSIVE FPowNat(_, _)
FPowNat(a, k) == IF k = 0 THEN PyFloat(100) ELSE FMul(a, FPowNat(a, k - 1))
FPow(a, b) ==
    IF b.t = "float" /\ b.n >= 0 /\ b.n % 100 = 0 THEN FPowNat(a, b.n \div 100) ELSE PyNaN

\* np.sin on one element: Bhaskara's approximation 16t(pi-t)/(5pi^2-4t(pi-t))
\* after reduction modulo 2*pi, in hundredths (pi is 314)
SinHalf(r) == (16 * r * (314 - r) * 100) \div (5 * 314 * 314 - 4 * r * (314 - r))
FSin(a) ==
    IF a.t # "float" THEN PyNaN
    ELSE LET r == a.n % 628
         IN  PyFloat(IF r <= 314 THEN SinHalf(r) ELSE -SinHalf(r - 314))
FAbs(a) ==
    CASE a.t = "nan" -> PyNaN
      [] IsInfTag(a.t) -> PyInf
      [] OTHER -> PyFloat(IF a.n < 0 THEN -a.n ELSE a.n)

\* np.linspace(start, stop, num) for num >= 2: arange(num) * step + start with
\* step = (stop - start) / (num - 1), then the last element set to stop
Linspace(start, stop, num) ==
    LET step == FDiv(FSub(stop, start), PyFloat((num - 1) * 100))
    IN  [i \in 1..num |->
            IF i = num THEN stop ELSE FAdd(FMul(PyFloat((i - 1) * 100), step), start)]

\* ------------------------------------------------------------ Python objects
\* What an expression evaluates to: a scalar value, a one-dimensional ndarray,
\* a zero-dimensional ndarray, or a list of numbers.
Scalar(v) == [k |-> "scalar", v |-> v, a |-> <<>>]
NdArray(a) == [k |-> "ndarray", v |-> PyNone, a |-> a]
NdArray0(v) == [k |-> "ndarray0", v |-> PyNone, a |-> <<v>>]
ListOf(a) == [k |-> "list", v |-> PyNone, a |-> a]
\* ndarray.shape
Shape(o) == IF o.k = "ndarray" THEN <<Len(o.a)>> ELSE <<>>

EvOk(o) == [ok |-> TRUE, o |-> o, exc |-> "", msg |-> ""]
EvRaise(e, m) == [ok |-> FALSE, o |-> Scalar(PyNone), exc |-> e, msg |-> m]

\* the float a Python number stands for
AsFloat(v) == IF v.t \in {"int", "bool"} THEN PyFloat(v.n) ELSE v
IsNumber(v) == v.t \in {"int", "float", "bool", "nan", "inf", "ninf"}

FloatOp(op, a, b) ==
    CASE op = "+" -> FAdd(a, b)
      [] op = "*" -> FMul(a, b)
      [] op = "/" -> FDiv(a, b)
      [] op = "**" -> FPow(a, b)

\* A binary operator of Python on two evaluated operands: Python arithmetic on
\* two numbers (division by zero raises), numpy broadcasting when an operand is
\* an ndarray, TypeError on anything else.
BinOp(op, l, r) ==
    CASE l.k = "scalar" /\ r.k = "scalar" ->
            IF ~(IsNumber(l.v) /\ IsNumber(r.v)) THEN EvRaise("TypeError", "unsupported operand")
            ELSE IF op = "/" /\ AsFloat(r.v).t = "float" /\ AsFloat(r.v).n = 0
                 THEN EvRaise("ZeroDivisionError", "division by zero")
            ELSE EvOk(Scalar(FloatOp(op, AsFloat(l.v), AsFloat(r.v))))
      [] l.k = "ndarray" /\ r.k = "scalar" ->
            IF ~IsNumber(r.v) THEN EvRaise("TypeError", "unsupported operand")
            ELSE EvOk(NdArray([i \in 1..Len(l.a) |-> FloatOp(op, l.a[i], AsFloat(r.v))]))
      [] l.k = "scalar" /\ r.k = "ndarray" ->
            IF ~IsNumber(l.v) THEN EvRaise("TypeError", "unsupported operand")
            ELSE EvOk(NdArray([i \in 1..Len(r.a) |-> FloatOp(op, AsFloat(l.v), r.a[i])]))
      [] l.k = "ndarray" /\ r.k = "ndarray" ->
            IF Len(l.a) # Len(r.a) THEN EvRaise("ValueError", "operands could not be broadcast")
            ELSE EvOk(NdArray([i \in 1..Len(l.a) |-> FloatOp(op, l.a[i], r.a[i])]))
      [] OTHER -> EvRaise("TypeError", "unsupported operand")

\* one element of a numpy ufunc of SAFE_FUNCTIONS
UfuncElem(f, a) ==
    CASE f = <<"s", "i", "n">> -> FSin(a)
      [] f = <<"a", "b", "s">> -> FAbs(a)

\* A call f(arg): a ufunc maps a number to a number and an ndarray to an
\* ndarray; calling what is no function raises TypeError.
CallOp(f, arg) ==
    IF ~(f.k = "scalar" /\ f.v.t = "func") THEN EvRaise("TypeError", "object is not callable")
    ELSE CASE arg.k = "ndarray" ->
                EvOk(NdArray([i \in 1..Len(arg.a) |-> UfuncElem(f.v.s, arg.a[i])]))
           [] arg.k = "scalar" /\ IsNumber(arg.v) ->
                EvOk(Scalar(UfuncElem(f.v.s, AsFloat(arg.v))))
           [] OTHER -> EvRaise("TypeError", "ufunc loop not supported")

\* ------------------------------------------------- modelled expressions
\* 'x'
E_x == <<"x">>
\* '1'
E_one == <<"1">>
\* 'pi'
E_pi == <<"p", "i">>
\* 'x**2 + 1'
E_square == <<"x", "*", "*", "2", " ", "+", " ", "1">>
\* '1/x'
E_recip == <<"1", "/", "x">>
\* 'sin(2 * pi * x)'
E_default == <<"s", "i", "n", "(", "2", " ", "*", " ", "p", "i", " ", "*", " ", "x", ")">>
\* 'sin'
E_sin == <<"s", "i", "n">>
\* '{}'
E_dict == <<"{", "}">>
\* '[1, 2]'
E_list == <<"[", "1", ",", " ", "2", "]">>
\* 'oslo'
E_oslo == <<"o", "s", "l", "o">>
\* 'x +'
E_dangling == <<"x", " ", "+">>
\* '  '
E_blank == <<" ", " ">>
\* ' x '
E_padded == <<" ", "x", " ">>
\* 'import os'
E_import == <<"i", "m", "p", "o", "r", "t", " ", "o", "s">>
\* '1 + important'
E_important == <<"1", " ", "+", " ", "i", "m", "p", "o", "r", "t", "a", "n", "t">>
\* 'x.__class__'
E_dunder == <<"x", ".", "_", "_", "c", "l", "a", "s", "s", "_", "_">>
\* 'os'
E_os == <<"o", "s">>
\* 'x + sys'
E_sys == <<"x", " ", "+", " ", "s", "y", "s">>
\* 'eval(x)'
E_eval == <<"e", "v", "a", "l", "(", "x", ")">>
\* 'exec'
E_exec == <<"e", "x", "e", "c">>
\* ''
E_empty == <<>>

\* ------------------------------------------------------------- the denylist
\* s contains pat as a substring
Contains(s, pat) ==
    \E i \in 1..(Len(s) - Len(pat) + 1) : SubSeq(s, i, i + Len(pat) - 1) = pat
\* s contains w between two word boundaries (\bw\b): w is a run of word
\* characters, so a boundary is the string's edge or a non-word character
ContainsWord(s, w) ==
    \E i \in 1..(Len(s) - Len(w) + 1) :
        /\ SubSeq(s, i, i + Len(w) - 1) = w
        /\ (i = 1 \/ s[i - 1] \notin WordChars)
        /\ (i + Len(w) - 1 = Len(s) \/ s[i + Len(w)] \notin WordChars)
\* the same pattern without the \bsys\b alternative
DenylistWithoutSys(s) ==
    \/ Contains(s, <<"_", "_">>)
    \/ Contains(s, <<"i", "m", "p", "o", "r", "t">>)
    \/ ContainsWord(s, <<"e", "x", "e", "c">>)
    \/ ContainsWord(s, <<"e", "v", "a", "l">>)
    \/ ContainsWord(s, <<"o", "s">>)
\* re.search(r"__|import|\bexec\b|\beval\b|\bos\b|\bsys\b", s) finds a match
DenylistSearch(s) ==
    \/ Contains(s, <<"_", "_">>)
    \/ Contains(s, <<"i", "m", "p", "o", "r", "t">>)
    \/ ContainsWord(s, <<"e", "x", "e", "c">>)
    \/ ContainsWord(s, <<"e", "v", "a", "l">>)
    \/ ContainsWord(s, <<"o", "s">>)
    \/ ContainsWord(s, <<"s", "y", "s">>)

\* --------------------------------------------------------------------- eval
\* Syntax trees of the modelled expressions.
Num(v) == [op |-> "num", v |-> v]
Name(id) == [op |-> "name", id |-> id]
Bin(o, l, r) == [op |-> "bin", o |-> o, l |-> l, r |-> r]
Call(f, arg) == [op |-> "call", f |-> f, arg |-> arg]
Attr(obj, id) == [op |-> "attr", obj |-> obj, id |-> id]
DictLit == [op |-> "dict"]
ListLit(a) == [op |-> "list", a |-> a]
SyntaxErr == [op |-> "syntaxerror"]

\* What Python's parser makes of each modelled expression (eval strips
\* leading blanks; an empty or dangling expression is a SyntaxError).
PyParse(e) ==
    CASE e = E_x -> Name("x")
      [] e = E_one -> Num(PyInt(1))
      [] e = E_pi -> Name("pi")
      [] e = E_square -> Bin("+", Bin("**", Name("x"), Num(PyInt(2))), Num(PyInt(1)))
      [] e = E_recip -> Bin("/", Num(PyInt(1)), Name("x"))
      [] e = E_default ->
            Call(Name("sin"), Bin("*", Bin("*", Num(PyInt(2)), Name("pi")), Name("x")))
      [] e = E_sin -> Name("sin")
      [] e = E_dict -> DictLit
      [] e = E_list -> ListLit(<<PyInt(1), PyInt(2)>>)
      [] e = E_oslo -> Name("oslo")
      [] e = E_dangling -> SyntaxErr
      [] e = E_import -> SyntaxErr
      [] e = E_important -> Bin("+", Num(PyInt(1)), Name("important"))
      [] e = E_dunder -> Attr(Name("x"), "__class__")
      [] e = E_os -> Name("os")
      [] e = E_sys -> Bin("+", Name("x"), Name("sys"))
      [] e = E_eval -> Call(Name("eval"), Name("x"))
      [] e = E_exec -> Name("exec")
      [] e = E_empty -> SyntaxErr

\* eval(tree, {"__builtins__": {}}, locals): names resolve in locals alone.
RECURSIVE EvalTree(_, _)
EvalTree(tree, locals) ==
    CASE tree.op = "num" -> EvOk(Scalar(tree.v))
      [] tree.op = "name" ->
            IF tree.id \in DOMAIN locals THEN EvOk(locals[tree.id])
            ELSE EvRaise("NameError", "name is not defined")
      [] tree.op = "bin" ->
            LET l == EvalTree(tree.l, locals)
            IN  IF ~l.ok THEN l
                ELSE LET r == EvalTree(tree.r, locals)
                     IN  IF ~r.ok THEN r ELSE BinOp(tree.o, l.o, r.o)
      [] tree.op = "call" ->
            LET f == EvalTree(tree.f, locals)
            IN  IF ~f.ok THEN f
                ELSE LET a == EvalTree(tree.arg, locals)
                     IN  IF ~a.ok THEN a ELSE CallOp(f.o, a.o)
      [] tree.op = "attr" ->
            LET b == EvalTree(tree.obj, locals)
            IN  IF ~b.ok THEN b ELSE EvOk(Scalar(Val("type", 0, <<>>)))
      [] tree.op = "dict" -> EvOk(Scalar(PyDict))
      [] tree.op = "list" -> EvOk(ListOf([i \in 1..Len(tree.a) |-> AsFloat(tree.a[i])]))
      [] tree.op = "syntaxerror" -> EvRaise("SyntaxError", "invalid syntax")

PyEval(expression, locals) == EvalTree(PyParse(expression), locals)

\* np.array(result, dtype=float) of what is no ndarray: a number becomes a
\* zero-dimensional array, a list of numbers a one-dimensional one, and an
\* object float() rejects raises TypeError.
NpArrayFloat(o) ==
    CASE o.k = "list" -> EvOk(NdArray(o.a))
      [] o.k = "scalar" /\ IsNumber(o.v) -> EvOk(NdArray0(AsFloat(o.v)))
      [] OTHER -> EvRaise("TypeError", "float() argument must be a string or a real number")

\* np.isfinite(a).all()
AllFinite(a) == \A i \in 1..Len(a) : IsFinite(a[i])

\* ----------------------------------------------------------------- messages
\* The error texts of the source, without their accents.
MSG_JSON == "Requete illisible (JSON invalide): "
MSG_INTERVAL == "Intervalle invalide: xMin doit etre < xMax"
MSG_SAMPLES == "Le nombre d'echantillons doit etre entre 2 et 10000"
MSG_EMPTY == "L'expression ne peut pas etre vide."
MSG_DENIED == "L'expression contient des elements non autorises."
MSG_LINE_WIDTH == "L'epaisseur de ligne doit etre entre 0.1 et 10."
MSG_EVAL == "Impossible d'evaluer l'expression: "
MSG_SHAPE == "L'expression doit produire une valeur pour chaque point x."
MSG_NONFINITE == "L'expression genere des valeurs non finies."
MSG_TOO_LARGE == "Payload trop volumineux."
MSG_INTERNAL == "Erreur interne: "

\* ----------------------------------------------------------- shared records
Keys == {"expression", "xMin", "xMax", "samples", "title", "xLabel", "yLabel",
         "color", "lineWidth", "grid", "marker"}

S_title == <<"C", "o", "u", "r", "b", "e", " ", "p", "a", "r", "a", "m", "e", "t", "r", "a", "b", "l", "e">>
S_x == <<"x">>
S_fx == <<"f", "(", "x", ")">>
S_color == <<"#", "2", "5", "6", "3", "e", "b">>

\* DEFAULT_PAYLOAD as the module sets it (2*pi is 628 hundredths)
InitialDefaults ==
    [expression |-> PyStr(E_default),
     xMin |-> PyFloat(-628),
     xMax |-> PyFloat(628),
     samples |-> PyInt(DEFAULT_SAMPLES),
     title |-> PyStr(S_title),
     xLabel |-> PyStr(S_x),
     yLabel |-> PyStr(S_fx),
     color |-> PyStr(S_color),
     lineWidth |-> PyFloat(200),
     grid |-> PyBool(TRUE),
     marker |-> PyStr(<<>>)]

Ufunc(name) == Scalar(Val("func", 0, name))
\* SAFE_FUNCTIONS as the module sets it (pi is 314 hundredths, e is 272)
InitialSafeFunctions ==
    [np |-> Scalar(PyModule),
     sin |-> Ufunc(<<"s", "i", "n">>),
     cos |-> Ufunc(<<"c", "o", "s">>),
     tan |-> Ufunc(<<"t", "a", "n">>),
     arcsin |-> Ufunc(<<"a", "r", "c", "s", "i", "n">>),
     arccos |-> Ufunc(<<"a", "r", "c", "c", "o", "s">>),
     arctan |-> Ufunc(<<"a", "r", "c", "t", "a", "n">>),
     sinh |-> Ufunc(<<"s", "i", "n", "h">>),
     cosh |-> Ufunc(<<"c", "o", "s", "h">>),
     tanh |-> Ufunc(<<"t", "a", "n", "h">>),
     exp |-> Ufunc(<<"e", "x", "p">>),
     log |-> Ufunc(<<"l", "o", "g">>),
     log10 |-> Ufunc(<<"l", "o", "g", "1", "0">>),
     sqrt |-> Ufunc(<<"s", "q", "r", "t">>),
     abs |-> Ufunc(<<"a", "b", "s">>),
     pi |-> Scalar(PyFloat(314)),
     e |-> Scalar(PyFloat(272))]

\* A raised exception, or a returned value under another field.
Exc(cls, msg) == [cls |-> cls, msg |-> msg]
NoExc == Exc("", "")

\* ------------------------------------------------------------ parse_payload
\* A request body after decoding: kind is what json.loads makes of the text,
\* fields the members of a JSON object (PyNone: null or absent), len the
\* number of bytes.
Body(kind, fields, len) == [kind |-> kind, fields |-> fields, len |-> len]
NoFields == [k \in Keys |-> PyNone]

\* dict(source) makes a new dict: the reference to the copy, not to source
DictAlias(source, fresh) == source
DictCopy(source, fresh) == fresh

\* payload.update({k: v for k, v in data.items() if v is not None})
Update(payload, data) == [k \in Keys |-> IF data[k].t # "none" THEN data[k] ELSE payload[k]]

\* parse_payload(body): the exception raised (or none) and the contents of the
\* dict it returns, built from `defaults`, the contents of DEFAULT_PAYLOAD
parse_payload(body, defaults) ==
    CASE body.kind = "empty" -> [exc |-> NoExc, dict |-> defaults]
      [] body.kind = "badjson" -> [exc |-> Exc("ValueError", MSG_JSON), dict |-> defaults]
      [] body.kind = "object" -> [exc |-> NoExc, dict |-> Update(defaults, body.fields)]
      [] OTHER ->
            [exc |-> Exc("AttributeError", "object has no attribute 'items'"),
             dict |-> defaults]

\* --------------------------------------------------------- validate_payload
IntervalFails(p) ==
    LET lo == PyFloatOf(p.xMin)
        hi == PyFloatOf(p.xMax)
    IN  ~lo.ok \/ ~hi.ok \/ FloatGE(lo.v, hi.v)
SamplesFails(p) ==
    LET n == PyIntOf(p.samples)
    IN  ~n.ok \/ ~(MIN_SAMPLES * 100 <= n.v.n /\ n.v.n <= MAX_SAMPLES * 100)
Trimmed(p) == Strip(PyStrOf(p.expression))
EmptyFails(p) == Trimmed(p) = <<>>
DeniedFails(p) == DenylistSearch(Trimmed(p))
LineWidthFails(p) ==
    LET w == PyFloatOf(p.lineWidth)
    IN  ~w.ok \/ ~(FloatLE(PyFloat(MIN_LINE_WIDTH), w.v) /\ FloatLE(w.v, PyFloat(MAX_LINE_WIDTH)))

\* the same checks with the sample count looked at before the interval
EarlyFailureSamplesFirst(p) ==
    IF SamplesFails(p) THEN MSG_SAMPLES
    ELSE IF IntervalFails(p) THEN MSG_INTERVAL
    ELSE IF EmptyFails(p) THEN MSG_EMPTY
    ELSE IF DeniedFails(p) THEN MSG_DENIED
    ELSE ""
\* lines 68-88: the message of the first check that raises, "" when none does
EarlyFailure(p) ==
    IF IntervalFails(p) THEN MSG_INTERVAL
    ELSE IF SamplesFails(p) THEN MSG_SAMPLES
    ELSE IF EmptyFails(p) THEN MSG_EMPTY
    ELSE IF DeniedFails(p) THEN MSG_DENIED
    ELSE ""

\* str(payload.get(key, "")).strip() or DEFAULT_PAYLOAD[key]
DisplayField(p, defaults, key) ==
    LET s == Strip(PyStrOf(p[key])) IN IF s # <<>> THEN PyStr(s) ELSE defaults[key]

\* lines 90-98: the dict after the assignments that follow the first checks
Normalized(p, defaults) ==
    [p EXCEPT !.xMin = PyFloatOf(p.xMin).v,
              !.xMax = PyFloatOf(p.xMax).v,
              !.samples = PyIntOf(p.samples).v,
              !.expression = PyStr(Trimmed(p)),
              !.title = DisplayField(p, defaults, "title"),
              !.xLabel = DisplayField(p, defaults, "xLabel"),
              !.yLabel = DisplayField(p, defaults, "yLabel"),
              !.color = PyStr(PyStrOf(IF Truthy(p.color) THEN p.color ELSE defaults.color)),
              !.marker = PyStr(IF Truthy(p.marker) THEN PyStrOf(p.marker) ELSE <<>>)]

\* validate_payload(payload): the exception raised (or none) and the contents
\* of the dict, which the function changes in place, when it returns or raises
validate_payload(p, defaults) ==
    IF EarlyFailure(p) # "" THEN [exc |-> Exc("ValueError", EarlyFailure(p)), dict |-> p]
    ELSE LET q == Normalized(p, defaults)
         IN  IF LineWidthFails(q)
             THEN [exc |-> Exc("ValueError", MSG_LINE_WIDTH), dict |-> q]
             ELSE [exc |-> NoExc,
                   dict |-> [q EXCEPT !.lineWidth = PyFloatOf(q.lineWidth).v,
                                      !.grid = PyBool(Truthy(q.grid))]]

\* ------------------------------------------------------ evaluate_expression
\* safe_locals = dict(SAFE_FUNCTIONS); safe_locals["x"] = x
WithX(table, x) ==
    [n \in DOMAIN table \cup {"x"} |-> IF n = "x" THEN NdArray(x) ELSE table[n]]

\* line 116: the raw result of eval, or what it raised
RawResult(expression, x, table) == PyEval(expression, WithX(table, x))

\* lines 120-121: the result as an ndarray
AsArray(raw) == IF raw.o.k \in {"ndarray", "ndarray0"} THEN EvOk(raw.o) ELSE NpArrayFloat(raw.o)

\* evaluate_expression(expression, x): the exception raised (or none) and the
\* array returned
evaluate_expression(expression, x, table) ==
    LET raw == RawResult(expression, x, table)
    IN  IF ~raw.ok THEN [exc |-> Exc("ValueError", MSG_EVAL), y |-> <<>>]
        ELSE LET arr == AsArray(raw)
             IN  IF ~arr.ok THEN [exc |-> Exc(arr.exc, arr.msg), y |-> <<>>]
                 ELSE IF Shape(arr.o) # <<Len(x)>>
                      THEN [exc |-> Exc("ValueError", MSG_SHAPE), y |-> <<>>]
                 ELSE IF ~AllFinite(arr.o.a)
                      THEN [exc |-> Exc("ValueError", MSG_NONFINITE), y |-> <<>>]
                 ELSE [exc |-> NoExc, y |-> arr.o.a]

\* -------------------------------------------------------------- render_plot
S_red == <<"r", "e", "d">>
S_zzz == <<"z", "z", "z">>
\* the colour and marker strings matplotlib accepts, among the modelled ones
ColorOk(c) == c \in {S_color, S_red}
MarkerOk(m) == m \in {<<>>, <<"o">>}
\* lines 133-153: what drawing and saving the figure can raise. matplotlib
\* raises ValueError on a colour or marker it does not know; drawing and
\* encoding can fail for reasons of their own (RuntimeError stands for them).
FigureOutcomes(p) ==
    IF ~ColorOk(p.color.s) \/ ~MarkerOk(p.marker.s) THEN {"ValueError"}
    ELSE {"", "RuntimeError"}

\* -------------------------------------------------------------------- state
Threads == {"t1", "t2"}

VARIABLES
    DEFAULT_PAYLOAD,  \* the module-level dict
    SAFE_FUNCTIONS,   \* the module-level symbol table
    pc,               \* where each handler thread stands
    req,              \* the request it serves: method, Content-Length, body
    content_length,   \* do_POST's content_length
    body,             \* do_POST's decoded body
    payload,          \* the dict `payload` refers to: "DEFAULT_PAYLOAD" or the thread's own
    dicts,            \* the contents of the dict each thread made for itself
    vin,              \* the contents of the dict validate_payload was given
    x,                \* render_plot's x
    ev,               \* what evaluate_expression raised or returned
    raised,           \* the last exception raised and the step that raised it
    response,         \* the response do_POST or do_GET has built
    sent,             \* the responses _send has written for the request
    calls             \* the functions called while serving the request, in order

vars == <<DEFAULT_PAYLOAD, SAFE_FUNCTIONS, pc, req, content_length, body, payload, dicts,
          vin, x, ev, raised, response, sent, calls>>

\* a response: its status and its error text, prefix before message
build_response(status, prefix, error) == [status |-> status, prefix |-> prefix, error |-> error]
NoResponse == build_response(0, "", "")
NoRaise == [cls |-> "", msg |-> "", step |-> ""]
NoEval == [exc |-> NoExc, y |-> <<>>]
NoBody == Body("none", NoFields, 0)
NoRequest == [method |-> "", header |-> PyNone, body |-> NoBody]

Init ==
    /\ DEFAULT_PAYLOAD = InitialDefaults
    /\ SAFE_FUNCTIONS = InitialSafeFunctions
    /\ pc = [t \in Threads |-> "idle"]
    /\ req = [t \in Threads |-> NoRequest]
    /\ content_length = [t \in Threads |-> 0]
    /\ body = [t \in Threads |-> NoBody]
    /\ payload = [t \in Threads |-> ""]
    /\ dicts = [t \in Threads |-> NoFields]
    /\ vin = [t \in Threads |-> NoFields]
    /\ x = [t \in Threads |-> <<>>]
    /\ ev = [t \in Threads |-> NoEval]
    /\ raised = [t \in Threads |-> NoRaise]
    /\ response = [t \in Threads |-> NoResponse]
    /\ sent = [t \in Threads |-> <<>>]
    /\ calls = [t \in Threads |-> <<>>]

\* the contents of the dict `payload` refers to
Deref(t) == IF payload[t] = "DEFAULT_PAYLOAD" THEN DEFAULT_PAYLOAD ELSE dicts[t]

\* a write of contents d through reference ref held by thread t
Store(t, ref, d) ==
    /\ DEFAULT_PAYLOAD' = IF ref = "DEFAULT_PAYLOAD" THEN d ELSE DEFAULT_PAYLOAD
    /\ dicts' = IF ref = "DEFAULT_PAYLOAD" THEN dicts ELSE [dicts EXCEPT ![t] = d]

\* lines 212-215: the response the except clauses build for an exception
Handled(exc) ==
    IF IsValueError(exc.cls) THEN build_response(400, "", exc.msg)
    ELSE build_response(500, MSG_INTERNAL, exc.msg)

\* --------------------------------------------------------- request handlers
\* A request arrives and BaseHTTPRequestHandler dispatches on its method.
Accept(t, r) ==
    /\ pc' = [pc EXCEPT ![t] =
                CASE r.method = "OPTIONS" -> "options"
                  [] r.method = "GET" -> "render_eval"
                  [] r.method = "POST" -> "post_length"]
    /\ req' = [req EXCEPT ![t] = r]
    \* do_GET passes DEFAULT_PAYLOAD itself to render_plot (line 184)
    /\ payload' = [payload EXCEPT ![t] = IF r.method = "GET" THEN "DEFAULT_PAYLOAD" ELSE ""]
    /\ UNCHANGED <<DEFAULT_PAYLOAD, SAFE_FUNCTIONS, content_length, body, dicts, vin, x, ev,
                   raised, response, sent, calls>>

Receive(t, offered) ==
    /\ pc[t] = "idle"
    /\ \E r \in offered : Accept(t, r)

\* The handler returns, or its exception ends the connection: the handler
\* object and its locals are dropped.
Return(t) ==
    /\ pc[t] \in {"done", "aborted"}
    /\ pc' = [pc EXCEPT ![t] = "idle"]
    /\ req' = [req EXCEPT ![t] = NoRequest]
    /\ content_length' = [content_length EXCEPT ![t] = 0]
    /\ body' = [body EXCEPT ![t] = NoBody]
    /\ payload' = [payload EXCEPT ![t] = ""]
    /\ dicts' = [dicts EXCEPT ![t] = NoFields]
    /\ vin' = [vin EXCEPT ![t] = NoFields]
    /\ x' = [x EXCEPT ![t] = <<>>]
    /\ ev' = [ev EXCEPT ![t] = NoEval]
    /\ raised' = [raised EXCEPT ![t] = NoRaise]
    /\ response' = [response EXCEPT ![t] = NoResponse]
    /\ sent' = [sent EXCEPT ![t] = <<>>]
    /\ calls' = [calls EXCEPT ![t] = <<>>]
    /\ UNCHANGED <<DEFAULT_PAYLOAD, SAFE_FUNCTIONS>>

\* do_OPTIONS (lines 179-181)
do_OPTIONS(t) ==
    /\ pc[t] = "options"
    /\ sent' = [sent EXCEPT ![t] = Append(@, build_response(200, "", ""))]
    /\ calls' = [calls EXCEPT ![t] = @ \o <<"build_response", "_send">>]
    /\ pc' = [pc EXCEPT ![t] = "done"]
    /\ UNCHANGED <<DEFAULT_PAYLOAD, SAFE_FUNCTIONS, req, content_length, body, payload,
                   dicts, vin, x, ev, raised, response>>

\* content_length > self.max_message_len
TooLargeInclusive(n) == n >= max_message_len
TooLarge(n) == n > max_message_len

\* int(self.headers.get("Content-Length") or "0")
DeclaredLength(header) ==
    IF Truthy(header) THEN IntOfStr(header.s) ELSE IntOfStr(<<"0">>)

\* do_POST, lines 190-197: the declared length, and the 413 answer
do_POST_length(t) ==
    /\ pc[t] = "post_length"
    /\ LET n == DeclaredLength(req[t].header)
       IN  IF ~n.ok
           THEN \* int() raises outside the try statement
                /\ raised' = [raised EXCEPT ![t] = [cls |-> n.exc, msg |-> "invalid literal for int()", step |-> "length"]]
                /\ pc' = [pc EXCEPT ![t] = "aborted"]
                /\ UNCHANGED <<content_length, sent, calls>>
           ELSE /\ content_length' = [content_length EXCEPT ![t] = n.v.n \div 100]
                /\ raised' = raised
                /\ IF TooLarge(n.v.n \div 100)
                   THEN /\ sent' = [sent EXCEPT ![t] = Append(@, build_response(413, "", MSG_TOO_LARGE))]
                        /\ calls' = [calls EXCEPT ![t] = @ \o <<"build_response", "_send">>]
                        /\ pc' = [pc EXCEPT ![t] = "done"]
                   ELSE /\ pc' = [pc EXCEPT ![t] = "post_read"]
                        /\ UNCHANGED <<sent, calls>>
    /\ UNCHANGED <<DEFAULT_PAYLOAD, SAFE_FUNCTIONS, req, body, payload, dicts, vin, x, ev,
                   response>>

\* self.rfile.read(n): n bytes of the body, all of it when n is negative or
\* not smaller than its length. A JSON text cut short is no JSON text, but for
\* a number, whose leading digits are a number.
ReadBytes(b, n) ==
    IF n < 0 \/ n >= b.len THEN b
    ELSE IF b.kind \in {"number", "badutf8"} THEN [b EXCEPT !.len = n]
    ELSE Body("badjson", NoFields, n)

\* do_POST, lines 199-200: read and decode the body
do_POST_read(t) ==
    /\ pc[t] = "post_read"
    /\ LET bytes == IF content_length[t] # 0 THEN ReadBytes(req[t].body, content_length[t])
                    ELSE Body("empty", NoFields, 0)
       IN  /\ calls' = [calls EXCEPT ![t] =
                           IF content_length[t] # 0 THEN Append(@, "rfile.read") ELSE @]
           /\ IF bytes.kind = "badutf8"
              THEN \* decode raises outside the try statement
                   /\ raised' = [raised EXCEPT ![t] = [cls |-> "UnicodeDecodeError", msg |-> "invalid start byte", step |-> "decode"]]
                   /\ pc' = [pc EXCEPT ![t] = "aborted"]
                   /\ body' = body
              ELSE /\ body' = [body EXCEPT ![t] = bytes]
                   /\ pc' = [pc EXCEPT ![t] = "post_parse"]
                   /\ raised' = raised
    /\ UNCHANGED <<DEFAULT_PAYLOAD, SAFE_FUNCTIONS, req, content_length, payload, dicts,
                   vin, x, ev, response, sent>>

\* do_POST, line 203: payload = parse_payload(body)
do_POST_parse(t) ==
    /\ pc[t] = "post_parse"
    /\ calls' = [calls EXCEPT ![t] = Append(@, "parse_payload")]
    /\ LET r == parse_payload(body[t], DEFAULT_PAYLOAD)
           ref == DictCopy("DEFAULT_PAYLOAD", t)
       IN  IF r.exc = NoExc
           THEN /\ payload' = [payload EXCEPT ![t] = ref]
                /\ Store(t, ref, r.dict)
                /\ pc' = [pc EXCEPT ![t] = "post_validate"]
                /\ UNCHANGED <<raised, response>>
           ELSE /\ raised' = [raised EXCEPT ![t] = [cls |-> r.exc.cls, msg |-> r.exc.msg, step |-> "parse"]]
                /\ response' = [response EXCEPT ![t] = Handled(r.exc)]
                /\ pc' = [pc EXCEPT ![t] = "post_send"]
                /\ UNCHANGED <<payload, DEFAULT_PAYLOAD, dicts>>
    /\ UNCHANGED <<SAFE_FUNCTIONS, req, content_length, body, vin, x, ev, sent>>

\* do_POST, line 204: payload = validate_payload(payload)
do_POST_validate(t) ==
    /\ pc[t] = "post_validate"
    /\ calls' = [calls EXCEPT ![t] = Append(@, "validate_payload")]
    /\ vin' = [vin EXCEPT ![t] = Deref(t)]
    /\ LET r == validate_payload(Deref(t), DEFAULT_PAYLOAD)
       IN  /\ Store(t, payload[t], r.dict)
           /\ IF r.exc = NoExc
              THEN /\ pc' = [pc EXCEPT ![t] = "render_eval"]
                   /\ UNCHANGED <<raised, response>>
              ELSE /\ raised' = [raised EXCEPT ![t] = [cls |-> r.exc.cls, msg |-> r.exc.msg, step |-> "validate"]]
                   /\ response' = [response EXCEPT ![t] = Handled(r.exc)]
                   /\ pc' = [pc EXCEPT ![t] = "post_send"]
    /\ UNCHANGED <<SAFE_FUNCTIONS, req, content_length, body, payload, x, ev, sent>>

\* An exception leaves render_plot: do_POST catches it, do_GET does not.
Thrown(t, exc, step) ==
    /\ raised' = [raised EXCEPT ![t] = [cls |-> exc.cls, msg |-> exc.msg, step |-> step]]
    /\ IF req[t].method = "POST"
       THEN /\ response' = [response EXCEPT ![t] = Handled(exc)]
            /\ pc' = [pc EXCEPT ![t] = "post_send"]
       ELSE /\ response' = response
            /\ pc' = [pc EXCEPT ![t] = "aborted"]

\* render_plot, lines 130-131: the samples and evaluate_expression
render_plot_evaluate(t) ==
    /\ pc[t] = "render_eval"
    /\ calls' = [calls EXCEPT ![t] = @ \o <<"render_plot", "evaluate_expression">>]
    /\ LET p == Deref(t)
           xs == Linspace(p.xMin, p.xMax, p.samples.n \div 100)
           r == evaluate_expression(p.expression.s, xs, SAFE_FUNCTIONS)
           table == DictCopy("SAFE_FUNCTIONS", t)
       IN  /\ x' = [x EXCEPT ![t] = xs]
           /\ ev' = [ev EXCEPT ![t] = r]
           /\ SAFE_FUNCTIONS' = IF table = "SAFE_FUNCTIONS" THEN WithX(SAFE_FUNCTIONS, xs)
                                ELSE SAFE_FUNCTIONS
           /\ IF r.exc = NoExc
              THEN /\ pc' = [pc EXCEPT ![t] = "render_figure"]
                   /\ UNCHANGED <<raised, response>>
              ELSE Thrown(t, r.exc, "evaluate")
    /\ UNCHANGED <<DEFAULT_PAYLOAD, req, content_length, body, payload, dicts, vin, sent>>

\* render_plot, lines 133-161, and the 200 response of the caller
render_plot_figure(t) ==
    /\ pc[t] = "render_figure"
    /\ \E outcome \in FigureOutcomes(Deref(t)) :
          IF outcome = ""
          THEN /\ response' = [response EXCEPT ![t] = build_response(200, "", "")]
               /\ pc' = [pc EXCEPT ![t] = IF req[t].method = "POST" THEN "post_send" ELSE "get_send"]
               /\ raised' = raised
          ELSE Thrown(t, Exc(outcome, "matplotlib"), "figure")
    /\ UNCHANGED <<DEFAULT_PAYLOAD, SAFE_FUNCTIONS, req, content_length, body, payload,
                   dicts, vin, x, ev, sent, calls>>

\* do_POST, line 217, and do_GET, line 187: self._send(...)
send(t) ==
    /\ pc[t] \in {"post_send", "get_send"}
    /\ sent' = [sent EXCEPT ![t] = Append(@, response[t])]
    /\ calls' = [calls EXCEPT ![t] = @ \o <<"build_response", "_send">>]
    /\ pc' = [pc EXCEPT ![t] = "done"]
    /\ UNCHANGED <<DEFAULT_PAYLOAD, SAFE_FUNCTIONS, req, content_length, body, payload,
                   dicts, vin, x, ev, raised, response>>

\* ----------------------------------------------------------------- requests
S_abc == <<"a", "b", "c">>
XMins == {PyNone, PyInt(-1), PyInt(5), PyNaN, PyStr(S_abc)}
XMaxs == {PyNone, PyInt(1), PyInf}
SampleCounts ==
    {PyInt(i) : i \in 1..MaxSamplesInput} \cup {PyInt(MAX_SAMPLES + 1), PyStr(S_abc)}
Expressions ==
    {PyNone, PyInt(1)} \cup
    {PyStr(e) : e \in {E_x, E_pi, E_square, E_recip, E_sin, E_dict, E_list, E_oslo,
                       E_dangling, E_blank, E_padded, E_import, E_important, E_dunder,
                       E_os, E_sys, E_eval, E_exec}}
\* 0.09, 0.1, 10.01 and a string that is no number
LineWidths == {PyNone, PyFloat(9), PyFloat(10), PyFloat(1001), PyStr(S_x)}
\* colour and title together: the defaults, or an unknown colour and a blank title
Cosmetics == {<<PyNone, PyNone>>, <<PyStr(S_zzz), PyStr(<<" ", " ">>)>>}

\* the byte length given to every JSON object body
ObjectLen == 8 * 8
ObjectBody(a, b, n, e, w, c) ==
    Body("object",
         [NoFields EXCEPT !.xMin = a, !.xMax = b, !.samples = n, !.expression = e,
                          !.lineWidth = w, !.color = c[1], !.title = c[2]],
         ObjectLen)
ObjectBodies ==
    {ObjectBody(a, b, n, e, w, c) :
        a \in XMins, b \in XMaxs, n \in SampleCounts, e \in Expressions,
        w \in LineWidths, c \in Cosmetics}

\* bodies that are no JSON object, and two that are
OtherBodies ==
    {Body("empty", NoFields, 0), Body("badutf8", NoFields, 4), Body("badjson", NoFields, 5),
     Body("array", NoFields, 2), Body("number", NoFields, 2), Body("string", NoFields, 4),
     Body("null", NoFields, 4),
     ObjectBody(PyInt(-1), PyInt(1), PyInt(3), PyStr(E_square), PyNone, <<PyNone, PyNone>>),
     ObjectBody(PyInt(-1), PyInt(1), PyInt(3), PyStr(E_import), PyNone, <<PyNone, PyNone>>)}

\* Content-Length headers: absent, empty, not a number, negative, zero, short,
\* the ceiling, and one more than the ceiling
OtherHeaders ==
    {PyNone, PyStr(<<>>), PyStr(S_abc), PyStr(<<"-", "1">>), PyStr(<<"0">>), PyStr(<<"1">>),
     PyStr(IntToStr(max_message_len)), PyStr(IntToStr(max_message_len + 1))}
\* the header of a client that declares the length of what it sends
ExactHeader(b) == PyStr(IntToStr(b.len))

Request(method, header, b) == [method |-> method, header |-> header, body |-> b]
Requests ==
    {Request("OPTIONS", PyNone, NoBody), Request("GET", PyNone, NoBody)}
    \cup {Request("POST", h, b) : h \in OtherHeaders, b \in OtherBodies}
    \cup {Request("POST", ExactHeader(b), b) : b \in OtherBodies \cup ObjectBodies}

\* the requests two concurrent handlers are given
FewRequests ==
    {Request("OPTIONS", PyNone, NoBody), Request("GET", PyNone, NoBody),
     Request("POST", PyNone, Body("empty", NoFields, 0))}
    \cup {Request("POST", ExactHeader(b), b) : b \in
        {Body("array", NoFields, 2),
         ObjectBody(PyInt(-1), PyInt(1), PyInt(3), PyStr(E_square), PyFloat(10),
                    <<PyStr(S_red), PyStr(S_abc)>>),
         ObjectBody(PyInt(5), PyInt(1), PyInt(3), PyStr(E_padded), PyNone, <<PyNone, PyNone>>),
         ObjectBody(PyInt(-1), PyInt(1), PyInt(2), PyStr(E_recip), PyStr(S_x),
                    <<PyStr(S_zzz), PyNone>>)}}

\* ----------------------------------------------------------- specifications
Step(t) ==
    \/ do_OPTIONS(t)
    \/ do_POST_length(t)
    \/ do_POST_read(t)
    \/ do_POST_parse(t)
    \/ do_POST_validate(t)
    \/ render_plot_evaluate(t)
    \/ render_plot_figure(t)
    \/ send(t)
    \/ Return(t)

\* one handler at a time, as under socketserver.TCPServer (line 238)
Next ==
    \/ Receive("t1", Requests)
    \/ Step("t1")
Spec == Init /\ [][Next]_vars

\* two handlers at once, as under a thread-per-request host
NextConcurrent ==
    \E t \in Threads :
        \/ Receive(t, FewRequests)
        \/ Step(t)
SpecConcurrent == Init /\ [][NextConcurrent]_vars

\* --------------------------------------------------------------- properties
Has(seq, name) == \E i \in 1..Len(seq) : seq[i] = name
\* evaluate_expression has run for the request thread t serves
Evaluated(t) == Has(calls[t], "evaluate_expression")
\* validate_payload has run for it
Validated(t) == Has(calls[t], "validate_payload")
\* parse_payload has returned a record for it
Parsed(t) == req[t].method = "POST" /\ payload[t] # ""
\* the record parse_payload returned, as validate_payload receives it
ParsedRecord(t) == IF Validated(t) THEN vin[t] ELSE Deref(t)
\* the request is over: the handler returned or its exception left it
Over(t) == pc[t] \in {"done", "aborted"}

\* C1: whenever the raw result of evaluating the expression is a scalar number
\* and x has n >= 2 elements, evaluate_expression returns n elements, each
\* equal to that scalar, and does not raise.
C1_ScalarBroadcast ==
    \A t \in Threads :
        Evaluated(t) /\ Len(x[t]) >= 2 =>
            LET raw == RawResult(Deref(t).expression.s, x[t], SAFE_FUNCTIONS)
            IN  raw.ok /\ raw.o.k = "scalar" /\ IsNumber(raw.o.v) =>
                    /\ ev[t].exc = NoExc
                    /\ Len(ev[t].y) = Len(x[t])
                    /\ \A i \in 1..Len(ev[t].y) : ev[t].y[i] = AsFloat(raw.o.v)

\* the expressions C2 speaks of: `__` or `import` anywhere, or one of exec,
\* eval, os, sys as a word of its own
Forbidden(s) ==
    \/ Contains(s, <<"_", "_">>)
    \/ Contains(s, <<"i", "m", "p", "o", "r", "t">>)
    \/ \E w \in {<<"e", "x", "e", "c">>, <<"e", "v", "a", "l">>, <<"o", "s">>, <<"s", "y", "s">>} :
          ContainsWord(s, w)

\* C2: in a POST whose parsed record holds an expression that, trimmed, is
\* forbidden, evaluate_expression is never called; once validate_payload has
\* run it has raised, the response built is a 400, and the one response sent
\* is that 400.
C2_DeniedNeverEvaluated ==
    \A t \in Threads :
        Parsed(t) /\ Forbidden(Strip(PyStrOf(ParsedRecord(t).expression))) =>
            /\ ~Evaluated(t)
            /\ pc[t] \in {"post_validate", "post_send", "done"}
            /\ Validated(t) =>
                  /\ raised[t].step = "validate"
                  /\ response[t].status = 400
            /\ pc[t] = "done" => sent[t] = <<response[t]>>
\* a request whose only violation is the forbidden expression was answered 400
C2_Witness ==
    \E t \in Threads :
        /\ pc[t] = "done"
        /\ Validated(t)
        /\ Forbidden(Strip(PyStrOf(vin[t].expression)))
        /\ sent[t] = <<build_response(400, "", MSG_DENIED)>>

\* C3: a POST whose decoded body is not empty and not a JSON object (invalid
\* JSON, or an array, a number, a string, null) is answered 400 with a message.
C3_NonObjectIs400 ==
    \A t \in Threads :
        /\ req[t].method = "POST"
        /\ pc[t] = "done"
        /\ body[t].kind \in {"badjson", "array", "number", "string", "null"}
        => /\ Len(sent[t]) = 1
           /\ sent[t][1].status = 400
           /\ sent[t][1].error # ""

\* C4: evaluate_expression either returns as many values as x has, all finite,
\* or raises a ValueError, which POST answers with 400; it raises nothing else.
C4_EvaluateOutcomes ==
    \A t \in Threads :
        Evaluated(t) /\ req[t].method = "POST" =>
            \/ /\ ev[t].exc = NoExc
               /\ Len(ev[t].y) = Len(x[t])
               /\ AllFinite(ev[t].y)
            \/ /\ IsValueError(ev[t].exc.cls)
               /\ response[t].status = 400

\* C5: a fault raised while drawing the figure of a POST is answered 500 with
\* the prefix "Erreur interne: ", whatever its class.
C5_RenderFaultIs500 ==
    \A t \in Threads :
        req[t].method = "POST" /\ raised[t].step = "figure" =>
            /\ response[t].status = 500
            /\ response[t].prefix = MSG_INTERNAL
            /\ pc[t] = "done" => sent[t] = <<response[t]>>

\* C6: every POST ends with exactly one response sent, of status 200, 400, 413
\* or 500: no exception leaves do_POST.
C6_OneResponse ==
    \A t \in Threads :
        req[t].method = "POST" /\ Over(t) =>
            /\ pc[t] = "done"
            /\ Len(sent[t]) = 1
            /\ sent[t][1].status \in {200, 400, 413, 500}

\* C7: once do_POST has read a numeric declared length n: if n > 1,000,000 the
\* request is over with the single response 413 "Payload trop volumineux." and
\* neither the body was read nor parse_payload, validate_payload or render_plot
\* called; if 0 <= n <= 1,000,000 no response of the request is a 413.
C7_TooLarge ==
    \A t \in Threads :
        req[t].method = "POST" /\ pc[t] # "post_length" /\ DeclaredLength(req[t].header).ok =>
            LET n == DeclaredLength(req[t].header).v.n \div 100
            IN  /\ n > 1000000 =>
                    /\ pc[t] = "done"
                    /\ sent[t] = <<build_response(413, "", MSG_TOO_LARGE)>>
                    /\ body[t] = NoBody
                    /\ \A f \in {"rfile.read", "parse_payload", "validate_payload", "render_plot"} :
                          ~Has(calls[t], f)
                /\ (0 <= n /\ n <= 1000000) =>
                    \A i \in 1..Len(sent[t]) : sent[t][i].status # 413
\* a request declaring more than the ceiling, with a body, was answered 413
C7_Witness ==
    \E t \in Threads :
        /\ pc[t] = "done"
        /\ req[t].body.kind = "object"
        /\ DeclaredLength(req[t].header).ok
        /\ DeclaredLength(req[t].header).v.n \div 100 > 1000000
        /\ sent[t] = <<build_response(413, "", MSG_TOO_LARGE)>>

\* the value float() makes of v is a finite number
CoercesFinite(v) == PyFloatOf(v).ok /\ PyFloatOf(v).v.t = "float"

\* C8: when validate_payload returns, the record's xMin and xMax are finite
\* numbers with xMin < xMax; when the xMin or xMax it is given is NaN, an
\* infinity or not coercible, or xMin >= xMax, it raises the interval error.
C8_FiniteInterval ==
    \A t \in Threads :
        Validated(t) =>
            /\ raised[t].step # "validate" =>
                  /\ Deref(t).xMin.t = "float"
                  /\ Deref(t).xMax.t = "float"
                  /\ Deref(t).xMin.n < Deref(t).xMax.n
            /\ (\/ ~CoercesFinite(vin[t].xMin)
                \/ ~CoercesFinite(vin[t].xMax)
                \/ PyFloatOf(vin[t].xMin).v.n >= PyFloatOf(vin[t].xMax).v.n)
               => raised[t].step = "validate" /\ raised[t].msg = MSG_INTERVAL

\* the message validate_payload raised for the request, "" when it returned
ValidationMessage(t) == IF raised[t].step = "validate" THEN raised[t].msg ELSE ""

\* C9: the message validate_payload raises is that of the first violated check
\* in the order interval, sample count, empty expression, forbidden
\* expression, line width; it returns only when no check is violated.
C9_FirstViolationWins ==
    \A t \in Threads :
        Validated(t) =>
            LET p == vin[t]
                m == ValidationMessage(t)
                v == <<IntervalFails(p), SamplesFails(p), EmptyFails(p), DeniedFails(p),
                       LineWidthFails(p)>>
                msg == <<MSG_INTERVAL, MSG_SAMPLES, MSG_EMPTY, MSG_DENIED, MSG_LINE_WIDTH>>
            IN  /\ \A i \in 1..5 : (v[i] /\ \A j \in 1..(i - 1) : ~v[j]) => m = msg[i]
                /\ (\A i \in 1..5 : ~v[i]) => m = ""
\* a record violating the interval, sample count, forbidden-expression and
\* line-width checks at once was refused with the interval message
C9_Witness ==
    \E t \in Threads :
        /\ pc[t] = "done"
        /\ Validated(t)
        /\ IntervalFails(vin[t]) /\ SamplesFails(vin[t]) /\ DeniedFails(vin[t])
        /\ LineWidthFails(vin[t])
        /\ sent[t] = <<build_response(400, "", MSG_INTERVAL)>>

\* C10: DEFAULT_PAYLOAD and SAFE_FUNCTIONS hold their initial keys and values
\* in every state, whatever requests were served and however interleaved.
C10_SharedStateConstant ==
    /\ DEFAULT_PAYLOAD = InitialDefaults
    /\ SAFE_FUNCTIONS = InitialSafeFunctions
\* one handler has answered a GET from the Defaults record itself while the
\* other has answered a POST whose validated record differs from the Defaults
C10_Witness ==
    \E t, u \in Threads :
        /\ t # u
        /\ req[t].method = "GET" /\ payload[t] = "DEFAULT_PAYLOAD"
        /\ pc[t] = "done" /\ sent[t] = <<build_response(200, "", "")>>
        /\ req[u].method = "POST" /\ pc[u] = "done"
        /\ sent[u] = <<build_response(200, "", "")>>
        /\ dicts[u] # InitialDefaults
====
